---- MODULE Spec2Model ----
(***************************************************************************)
(* Model of aero_functions.py: closed-form potential-flow fields evaluated *)
(* elementwise over a grid.                                                *)
(*                                                                         *)
(* Numbers.  A float is modelled as an IEEE-754 class plus an exact value: *)
(*   k = "nan"                    not-a-number                             *)
(*   k = "inf"                    infinity of sign q[1]                    *)
(*   k = "fin"                    q * pi^e * sqrt(r) * t: q an exact       *)
(*                                rational <<n, d>>, r a squarefree        *)
(*                                integer >= 1, t a positive               *)
(*                                transcendental atom named by a string    *)
(*                                ("1" when absent)                        *)
(*   k = "unrep"                  a finite sum the monomial form cannot    *)
(*                                hold (never produced by the inputs used) *)
(* Division by zero, 0*inf, log(0), ... follow numpy's array semantics     *)
(* (a warning, never an exception); Python scalar division raises.         *)
(* Rounding, overflow and underflow of binary64 and the sign of zero are   *)
(* not modelled: finite arithmetic is exact.                               *)
(***************************************************************************)
EXTENDS Integers, Sequences, FiniteSets, TLC

VARIABLES obj, hist, call, ret

vars == <<obj, hist, call, ret>>

(***************************** exact rationals *****************************)

Abs(n) == IF n < 0 THEN -n ELSE n

RECURSIVE Gcd(_, _)
Gcd(a, b) == IF b = 0 THEN a ELSE Gcd(b, a % b)

\* n/d in lowest terms with a positive denominator (d # 0).
Rat(n, d) ==
    LET g == Gcd(Abs(n), Abs(d))
        s == IF d < 0 THEN -1 ELSE 1
    IN  <<(s * n) \div g, (s * d) \div g>>

RAdd(a, b) == Rat(a[1] * b[2] + b[1] * a[2], a[2] * b[2])
RMul(a, b) == Rat(a[1] * b[1], a[2] * b[2])
RDiv(a, b) == Rat(a[1] * b[2], a[2] * b[1])
RNeg(a) == <<-a[1], a[2]>>
RSign(a) == IF a[1] > 0 THEN 1 ELSE IF a[1] < 0 THEN -1 ELSE 0

\* r^k, or some number above cap once the power exceeds cap.
RECURSIVE PowCap(_, _, _)
PowCap(r, k, cap) ==
    IF k = 0 THEN 1
    ELSE LET p == PowCap(r, k - 1, cap) IN IF p > cap THEN cap + 1 ELSE p * r

\* m is a perfect k-th power (m >= 1, k >= 1), and its k-th root.
IsPow(m, k) == \E r \in 1..m : PowCap(r, k, m) = m
Root(m, k) == CHOOSE r \in 1..m : PowCap(r, k, m) = m

\* The largest j with 2^j <= m (m >= 1).
RECURSIVE Log2(_)
Log2(m) == IF m < 2 THEN 0 ELSE 1 + Log2(m \div 2)

(******************************** floats ***********************************)

One == "1"

\* The largest s with s*s dividing m (m >= 1).
SquarePart(m) == CHOOSE s \in 1..m : m % (s * s) = 0 /\ \A u \in (s + 1)..m : m % (u * u) # 0

\* q * pi^e * sqrt(m) * t for any integer m >= 1, with the square part of m moved into q.
Fin(q, e, m, t) ==
    IF q[1] = 0 THEN [k |-> "fin", q |-> <<0, 1>>, e |-> 0, r |-> 1, t |-> One]
    ELSE LET s == SquarePart(m)
         IN  [k |-> "fin", q |-> Rat(q[1] * s, q[2]), e |-> e, r |-> m \div (s * s), t |-> t]

R(n, d) == Fin(Rat(n, d), 0, 1, One)
I(n) == R(n, 1)
NaN == [k |-> "nan", q |-> <<0, 1>>, e |-> 0, r |-> 1, t |-> One]
Inf(s) == [k |-> "inf", q |-> <<s, 1>>, e |-> 0, r |-> 1, t |-> One]
Unrep == [k |-> "unrep", q |-> <<0, 1>>, e |-> 0, r |-> 1, t |-> One]

\* numpy.pi
Pi == Fin(<<1, 1>>, 1, 1, One)

IsFinite(a) == a.k = "fin"
IsZero(a) == a.k = "fin" /\ a.q[1] = 0
IsRational(a) == a.k = "fin" /\ a.e = 0 /\ a.r = 1 /\ a.t = One
Sign(a) == RSign(a.q)

\* unary minus
FNeg(a) == IF a.k \in {"nan", "unrep"} THEN a ELSE [a EXCEPT !.q = RNeg(a.q)]

\* a * b
FMul(a, b) ==
    IF a.k = "unrep" \/ b.k = "unrep" THEN Unrep
    ELSE IF a.k = "nan" \/ b.k = "nan" THEN NaN
    ELSE IF a.k = "inf" \/ b.k = "inf"
         THEN IF IsZero(a) \/ IsZero(b) THEN NaN ELSE Inf(Sign(a) * Sign(b))
    ELSE Fin(RMul(a.q, b.q), a.e + b.e, a.r * b.r,
             IF a.t = One THEN b.t
             ELSE IF b.t = One THEN a.t
             ELSE "(" \o a.t \o ")*(" \o b.t \o ")")

\* a / b on numpy values: x/0 is an infinity, 0/0 and inf/inf are NaN.
FDiv(a, b) ==
    IF a.k = "unrep" \/ b.k = "unrep" THEN Unrep
    ELSE IF a.k = "nan" \/ b.k = "nan" THEN NaN
    ELSE IF b.k = "inf" THEN IF a.k = "inf" THEN NaN ELSE I(0)
    ELSE IF IsZero(b)
         THEN IF IsZero(a) THEN NaN ELSE Inf(Sign(a))
    ELSE IF a.k = "inf" THEN Inf(Sign(a) * Sign(b))
    ELSE Fin(RDiv(a.q, RMul(b.q, <<b.r, 1>>)), a.e - b.e, a.r * b.r,
             IF b.t = One THEN a.t
             ELSE IF a.t = b.t THEN One
             ELSE "(" \o a.t \o ")/(" \o b.t \o ")")

\* a + b
FAdd(a, b) ==
    IF a.k = "unrep" \/ b.k = "unrep" THEN Unrep
    ELSE IF a.k = "nan" \/ b.k = "nan" THEN NaN
    ELSE IF a.k = "inf"
         THEN IF b.k = "inf" /\ Sign(a) # Sign(b) THEN NaN ELSE a
    ELSE IF b.k = "inf" THEN b
    ELSE IF IsZero(a) THEN b
    ELSE IF IsZero(b) THEN a
    ELSE IF a.e = b.e /\ a.r = b.r /\ a.t = b.t THEN Fin(RAdd(a.q, b.q), a.e, a.r, a.t)
    ELSE Unrep

\* a - b
FSub(a, b) == FAdd(a, FNeg(b))

\* a ** 2
FSq(a) == FMul(a, a)

(************************* numpy elementwise functions **********************)

\* ln(n/d) for integers n, d >= 1, as k * ln(a/b) with a/b > 1 not a perfect
\* power, so that equal logarithms have equal representations.
LnRat(n, d) ==
    IF n = d THEN I(0)
    ELSE LET hi == IF n > d THEN n ELSE d
             lo == IF n > d THEN d ELSE n
             k == CHOOSE j \in 1..Log2(hi) :
                      /\ IsPow(hi, j) /\ IsPow(lo, j)
                      /\ \A i \in (j + 1)..Log2(hi) : ~(IsPow(hi, i) /\ IsPow(lo, i))
             t == "ln(" \o ToString(Root(hi, k)) \o "/" \o ToString(Root(lo, k)) \o ")"
         IN  Fin(<<IF n > d THEN k ELSE -k, 1>>, 0, 1, t)

\* numpy.sqrt
np_sqrt(a) ==
    IF a.k \in {"nan", "unrep"} THEN a
    ELSE IF a.k = "inf" THEN IF Sign(a) > 0 THEN a ELSE NaN
    ELSE IF IsZero(a) THEN a
    ELSE IF Sign(a) < 0 THEN NaN
    ELSE IF ~IsRational(a) THEN Unrep
    ELSE Fin(<<1, a.q[2]>>, 0, a.q[1] * a.q[2], One)

\* numpy.log: log(0) = -inf, log of a negative number is NaN.
np_log(a) ==
    IF a.k \in {"nan", "unrep"} THEN a
    ELSE IF a.k = "inf" THEN IF Sign(a) > 0 THEN a ELSE NaN
    ELSE IF IsZero(a) THEN Inf(-1)
    ELSE IF Sign(a) < 0 THEN NaN
    ELSE IF IsRational(a) THEN LnRat(a.q[1], a.q[2])
    ELSE IF a.e = 0 /\ a.t = One
         THEN FMul(R(1, 2), LnRat(a.q[1] * a.q[1] * a.r, a.q[2] * a.q[2]))
    ELSE Unrep

\* cos(k*pi/12) for the angles with a closed form in rationals and one square root.
RECURSIVE CosTwelfths(_)
CosTwelfths(k) ==
    IF k > 12 THEN CosTwelfths(24 - k)
    ELSE IF k > 6 THEN FNeg(CosTwelfths(12 - k))
    ELSE IF k = 0 THEN I(1)
    ELSE IF k = 2 THEN Fin(<<1, 2>>, 0, 3, One)
    ELSE IF k = 3 THEN Fin(<<1, 2>>, 0, 2, One)
    ELSE IF k = 4 THEN R(1, 2)
    ELSE IF k = 6 THEN I(0)
    ELSE Unrep

ArctanAtom(a, b) == "arctan2(" \o ToString(a) \o "," \o ToString(b) \o ")"

\* numpy.arctan2(y, x) of two rationals; arctan2(0, 0) = 0.
np_arctan2(y, x) ==
    IF y.k = "unrep" \/ x.k = "unrep" THEN Unrep
    ELSE IF y.k = "nan" \/ x.k = "nan" THEN NaN
    ELSE IF ~(IsRational(y) \/ IsZero(y)) \/ ~(IsRational(x) \/ IsZero(x)) THEN Unrep
    ELSE LET a0 == y.q[1] * x.q[2]
             b0 == x.q[1] * y.q[2]
             g == Gcd(Abs(a0), Abs(b0))
             a == IF g = 0 THEN 0 ELSE a0 \div g
             b == IF g = 0 THEN 0 ELSE b0 \div g
             s == IF a < 0 THEN -1 ELSE 1
         IN  IF a = 0 THEN (IF b >= 0 THEN I(0) ELSE Pi)
             ELSE IF b = 0 THEN Fin(<<s, 2>>, 1, 1, One)
             ELSE IF Abs(a) = Abs(b)
                  THEN Fin(<<IF b > 0 THEN s ELSE 3 * s, 4>>, 1, 1, One)
             ELSE Fin(<<s, 1>>, 0, 1, ArctanAtom(Abs(a), b))

\* numpy.cos
np_cos(v) ==
    IF v.k \in {"nan", "unrep"} THEN v
    ELSE IF v.k = "inf" THEN NaN
    ELSE IF IsZero(v) THEN I(1)
    ELSE IF v.e = 1 /\ v.r = 1 /\ v.t = One /\ 12 % v.q[2] = 0
         THEN CosTwelfths((v.q[1] * (12 \div v.q[2])) % 24)
    ELSE Unrep

\* numpy.sin
np_sin(v) ==
    IF v.k \in {"nan", "unrep"} THEN v
    ELSE IF v.k = "inf" THEN NaN
    ELSE IF IsZero(v) THEN I(0)
    ELSE IF v.e = 1 /\ v.r = 1 /\ v.t = One /\ 12 % v.q[2] = 0
         THEN CosTwelfths((v.q[1] * (12 \div v.q[2]) + 18) % 24)
    ELSE Unrep

\* A name for |a|, used inside the atoms of sinh and cosh.
ValStr(a) == ToString(<<Abs(a.q[1]), a.q[2], a.e, a.r>>) \o a.t

\* numpy.sinh
np_sinh(v) ==
    IF v.k \in {"nan", "unrep", "inf"} THEN v
    ELSE IF IsZero(v) THEN I(0)
    ELSE Fin(<<Sign(v), 1>>, 0, 1, "sinh(" \o ValStr(v) \o ")")

\* numpy.cosh
np_cosh(v) ==
    IF v.k \in {"nan", "unrep"} THEN v
    ELSE IF v.k = "inf" THEN Inf(1)
    ELSE IF IsZero(v) THEN I(1)
    ELSE Fin(<<1, 1>>, 0, 1, "cosh(" \o ValStr(v) \o ")")

\* ch - co where ch = cosh(.) and co = cos(.): when cosh(.) > 1 the difference
\* is a positive number, kept as an atom of its own.
CoshMinusCos(ch, co) ==
    IF ch.k = "fin" /\ ch.t # One /\ co.k = "fin"
    THEN Fin(<<1, 1>>, 0, 1,
             "(" \o ch.t \o "-" \o ToString(<<co.q, co.r>>) \o ")")
    ELSE FSub(ch, co)

(********************************* arrays **********************************)

\* A 2-D ndarray: its shape and its cells, indexed from 0.
Array(rows, cols, F(_, _)) ==
    [shape |-> <<rows, cols>>,
     at |-> [p \in (0..(rows - 1)) \X (0..(cols - 1)) |-> F(p[1], p[2])]]

Cells(A) == DOMAIN A.at

\* An elementwise expression over two arrays of one shape.
Elementwise(X, Y, F(_, _)) ==
    [shape |-> X.shape, at |-> [p \in Cells(X) |-> F(X.at[p], Y.at[p])]]

\* numpy.ones((N, N))
np_ones(N) == Array(N, N, LAMBDA i, j : I(1))

\* Mutant of np_zeros: an array of ones.
np_zeros_ones(N) == Array(N, N, LAMBDA i, j : I(1))

\* Mutant of np_zeros: a one-row array, numpy.zeros(N).
np_zeros_row(N) == Array(1, N, LAMBDA i, j : I(0))

\* numpy.zeros((N, N))
np_zeros(N) == Array(N, N, LAMBDA i, j : I(0))

\* scalar * array
Scale(c, A) == [shape |-> A.shape, at |-> [p \in Cells(A) |-> FMul(c, A.at[p])]]

\* numpy.linspace(start, stop, num), num >= 0: a sequence of num samples, the
\* first at start, the step (stop - start)/(num - 1), the last set to stop.
np_linspace(start, stop, num) ==
    [i \in 1..num |->
        IF i = 1 THEN start
        ELSE IF i = num THEN stop
        ELSE FAdd(FMul(I(i - 1), FDiv(FSub(stop, start), I(num - 1))), start)]

\* Mutant of np_meshgrid: matrix ('ij') indexing.
np_meshgrid_ij(x, y) ==
    <<Array(Len(x), Len(y), LAMBDA i, j : x[i + 1]),
      Array(Len(x), Len(y), LAMBDA i, j : y[j + 1])>>

\* numpy.meshgrid(x, y) with the default 'xy' indexing: shape (len(y), len(x)).
np_meshgrid(x, y) ==
    <<Array(Len(y), Len(x), LAMBDA i, j : x[j + 1]),
      Array(Len(y), Len(x), LAMBDA i, j : y[i + 1])>>

create_grid(N, x_start, x_end, y_start, y_end) ==
    LET x == np_linspace(x_start, x_end, N)
        y == np_linspace(y_start, y_end, N)
    IN  np_meshgrid(x, y)

(**************************** free functions ********************************)

\* 2*numpy.pi
TwoPi == FMul(I(2), Pi)

\* Mutant of R2: the squared distance smoothed by a positive constant.
R2_smoothed(x, y, x0, y0) == FAdd(FAdd(FSq(FSub(x, x0)), FSq(FSub(y, y0))), R(1, 4))

\* (X-x0)**2+(Y-y0)**2 at one cell
R2(x, y, x0, y0) == FAdd(FSq(FSub(x, x0)), FSq(FSub(y, y0)))

get_freestream_info(u_inf, alpha, X, Y, N) ==
    LET u == Scale(FMul(u_inf, np_cos(alpha)), np_ones(N))
        v == Scale(FMul(u_inf, np_sin(alpha)), np_zeros(N))
        psi == Elementwise(X, Y, LAMBDA x, y :
                   FMul(u_inf, FSub(FMul(y, np_cos(alpha)), FMul(x, np_sin(alpha)))))
    IN  <<u, v, psi>>

\* Mutant of get_vortex_info: the velocity components exchanged (u from X-xv with
\* the minus sign, v from Y-yv).
get_vortex_info_swapped(strength, xv, yv, X, Y) ==
    LET u == Elementwise(X, Y, LAMBDA x, y :
                 FDiv(FMul(FDiv(FNeg(strength), TwoPi), FSub(x, xv)), R2(x, y, xv, yv)))
        v == Elementwise(X, Y, LAMBDA x, y :
                 FDiv(FMul(FDiv(strength, TwoPi), FSub(y, yv)), R2(x, y, xv, yv)))
        psi == Elementwise(X, Y, LAMBDA x, y :
                   FMul(FDiv(strength, FMul(I(4), Pi)), np_log(np_sqrt(R2(x, y, xv, yv)))))
    IN  <<u, v, psi>>

get_vortex_info(strength, xv, yv, X, Y) ==
    LET u == Elementwise(X, Y, LAMBDA x, y :
                 FDiv(FMul(FDiv(strength, TwoPi), FSub(y, yv)), R2(x, y, xv, yv)))
        v == Elementwise(X, Y, LAMBDA x, y :
                 FDiv(FMul(FDiv(FNeg(strength), TwoPi), FSub(x, xv)), R2(x, y, xv, yv)))
        psi == Elementwise(X, Y, LAMBDA x, y :
                   FMul(FDiv(strength, FMul(I(4), Pi)), np_log(np_sqrt(R2(x, y, xv, yv)))))
    IN  <<u, v, psi>>

get_ss_info(strength, xs, ys, X, Y) ==
    LET u == Elementwise(X, Y, LAMBDA x, y :
                 FDiv(FMul(FDiv(strength, TwoPi), FSub(x, xs)), R2(x, y, xs, ys)))
        v == Elementwise(X, Y, LAMBDA x, y :
                 FDiv(FMul(FDiv(strength, TwoPi), FSub(y, ys)), R2(x, y, xs, ys)))
        psi == Elementwise(X, Y, LAMBDA x, y :
                   FMul(FDiv(strength, TwoPi), np_arctan2(FSub(y, ys), FSub(x, xs))))
    IN  <<u, v, psi>>

get_doublet_info(strength, xd, yd, X, Y) ==
    LET u == Elementwise(X, Y, LAMBDA x, y :
                 FDiv(FMul(FDiv(FNeg(strength), TwoPi),
                           FSub(FSq(FSub(x, xd)), FSq(FSub(y, yd)))),
                      FSq(R2(x, y, xd, yd))))
        v == Elementwise(X, Y, LAMBDA x, y :
                 FDiv(FMul(FMul(FMul(FDiv(FNeg(strength), TwoPi), I(2)), FSub(x, xd)),
                           FSub(y, yd)),
                      FSq(R2(x, y, xd, yd))))
        psi == Elementwise(X, Y, LAMBDA x, y :
                   FDiv(FMul(FDiv(FNeg(strength), TwoPi), FSub(y, yd)), R2(x, y, xd, yd)))
    IN  <<u, v, psi>>

get_freestream_cylindrical_info(u_inf, Rad, Theta) ==
    LET vr == Elementwise(Rad, Theta, LAMBDA r, th : FMul(u_inf, np_cos(th)))
        vtheta == Elementwise(Rad, Theta, LAMBDA r, th : FMul(FNeg(u_inf), np_sin(th)))
        psi == Elementwise(Rad, Theta, LAMBDA r, th : FMul(FMul(u_inf, r), np_sin(th)))
    IN  <<vr, vtheta, psi>>

get_doublet_cylindrical_info(strength, Rad, Theta) ==
    LET vr == Elementwise(Rad, Theta, LAMBDA r, th :
                  FNeg(FDiv(FMul(strength, np_cos(th)), FMul(TwoPi, FSq(r)))))
        vtheta == Elementwise(Rad, Theta, LAMBDA r, th :
                      FNeg(FDiv(FMul(strength, np_sin(th)), FMul(TwoPi, FSq(r)))))
        psi == Elementwise(Rad, Theta, LAMBDA r, th :
                   FDiv(FMul(FNeg(strength), np_sin(th)), FMul(TwoPi, r)))
    IN  <<vr, vtheta, psi>>

(* A call either returns a value or raises a Python exception. *)
Return(v) == [exc |-> "none", out |-> v]
Raise(e) == [exc |-> e, out |-> <<>>]
Pending == [exc |-> "pending", out |-> <<>>]

\* Mutant of get_velocity_infinite_vortices: the spacing taken from the first and
\* the last entry, x_vortices[-1] - x_vortices[0], which a one-entry row allows.
get_velocity_infinite_vortices_last(gamma, X, Y, x_vortices) ==
    IF Len(x_vortices.el) < 1 THEN Raise("IndexError")
    ELSE LET a == FSub(x_vortices.el[Len(x_vortices.el)], x_vortices.el[1])
             c == FDiv(TwoPi, a)
             den(x, y) == CoshMinusCos(np_cosh(FMul(c, y)), np_cos(FMul(c, x)))
             u == Elementwise(X, Y, LAMBDA x, y :
                      FMul(FDiv(gamma, FMul(I(2), a)),
                           FDiv(np_sinh(FMul(c, y)), den(x, y))))
             v == Elementwise(X, Y, LAMBDA x, y :
                      FMul(FNeg(FDiv(gamma, FMul(I(2), a))),
                           FDiv(np_sin(FMul(c, x)), den(x, y))))
         IN  IF x_vortices.ty = "list" /\ IsZero(a) THEN Raise("ZeroDivisionError")
             ELSE Return(<<u, v>>)

\* x_vortices is [ty |-> "list" | "ndarray", el |-> its entries].  Indexing past
\* the end raises IndexError; a Python float divided by a Python zero raises
\* ZeroDivisionError, while a numpy scalar divisor gives an infinity.
get_velocity_infinite_vortices(gamma, X, Y, x_vortices) ==
    IF Len(x_vortices.el) < 2 THEN Raise("IndexError")
    ELSE LET a == FSub(x_vortices.el[2], x_vortices.el[1])
             c == FDiv(TwoPi, a)
             den(x, y) == CoshMinusCos(np_cosh(FMul(c, y)), np_cos(FMul(c, x)))
             u == Elementwise(X, Y, LAMBDA x, y :
                      FMul(FDiv(gamma, FMul(I(2), a)),
                           FDiv(np_sinh(FMul(c, y)), den(x, y))))
             v == Elementwise(X, Y, LAMBDA x, y :
                      FMul(FNeg(FDiv(gamma, FMul(I(2), a))),
                           FDiv(np_sin(FMul(c, x)), den(x, y))))
         IN  IF x_vortices.ty = "list" /\ IsZero(a) THEN Raise("ZeroDivisionError")
             ELSE Return(<<u, v>>)

(******************************** classes **********************************)

\* An instance is its class and its attribute dictionary d; an attribute that
\* was never assigned is absent from DOMAIN d.
SetAttr(d, name, val) ==
    [n \in DOMAIN d \cup {name} |-> IF n = name THEN val ELSE d[n]]

HasAttr(self, name) == name \in DOMAIN self.d

\* Source.__init__ and Vortex.__init__
Construct(class, strength, x, y) ==
    [class |-> class, d |-> [strength |-> strength, x |-> x, y |-> y]]

Source_velocity(self, X, Y) ==
    LET u == Elementwise(X, Y, LAMBDA x, y :
                 FDiv(FMul(FDiv(self.d.strength, TwoPi), FSub(x, self.d.x)),
                      R2(x, y, self.d.x, self.d.y)))
        v == Elementwise(X, Y, LAMBDA x, y :
                 FDiv(FMul(FDiv(self.d.strength, TwoPi), FSub(y, self.d.y)),
                      R2(x, y, self.d.x, self.d.y)))
    IN  [self EXCEPT !.d = SetAttr(SetAttr(self.d, "u", u), "v", v)]

\* Mutant of Source_stream_function: the result assigned to self.u.
Source_stream_function_into_u(self, X, Y) ==
    LET psi == Elementwise(X, Y, LAMBDA x, y :
                   FMul(FDiv(self.d.strength, TwoPi),
                        np_arctan2(FSub(y, self.d.y), FSub(x, self.d.x))))
    IN  [self EXCEPT !.d = SetAttr(self.d, "u", psi)]

Source_stream_function(self, X, Y) ==
    LET psi == Elementwise(X, Y, LAMBDA x, y :
                   FMul(FDiv(self.d.strength, TwoPi),
                        np_arctan2(FSub(y, self.d.y), FSub(x, self.d.x))))
    IN  [self EXCEPT !.d = SetAttr(self.d, "psi", psi)]

Vortex_velocity(self, X, Y) ==
    LET u == Elementwise(X, Y, LAMBDA x, y :
                 FDiv(FMul(FDiv(self.d.strength, TwoPi), FSub(y, self.d.y)),
                      R2(x, y, self.d.x, self.d.y)))
        v == Elementwise(X, Y, LAMBDA x, y :
                 FDiv(FMul(FDiv(FNeg(self.d.strength), TwoPi), FSub(x, self.d.x)),
                      R2(x, y, self.d.x, self.d.y)))
    IN  [self EXCEPT !.d = SetAttr(SetAttr(self.d, "u", u), "v", v)]

\* Mutant of Vortex_stream_function: the cell at the vortex itself set to 0.
Vortex_stream_function_guarded(self, X, Y) ==
    LET psi == Elementwise(X, Y, LAMBDA x, y :
                   IF IsZero(R2(x, y, self.d.x, self.d.y)) THEN I(0)
                   ELSE FMul(FDiv(FNeg(self.d.strength), FMul(I(4), Pi)),
                             np_log(R2(x, y, self.d.x, self.d.y))))
    IN  [self EXCEPT !.d = SetAttr(self.d, "psi", psi)]

Vortex_stream_function(self, X, Y) ==
    LET psi == Elementwise(X, Y, LAMBDA x, y :
                   FMul(FDiv(FNeg(self.d.strength), FMul(I(4), Pi)),
                        np_log(R2(x, y, self.d.x, self.d.y))))
    IN  [self EXCEPT !.d = SetAttr(self.d, "psi", psi)]

(********************************* inputs **********************************)

\* Largest N given to create_grid, and largest number of samples per axis of
\* the grids given to the evaluators.
MaxN == 5
MaxGridN == 3

Strengths == {I(-1), I(0), I(1), I(2)}
Positions == {<<I(0), I(0)>>, <<I(1), I(0)>>, <<R(1, 2), R(1, 2)>>}
Bounds == {I(-1), I(0), I(1), I(4)}
Spans == {<<I(-1), I(1)>>, <<I(0), I(2)>>}
Angles == {I(0), FDiv(Pi, I(4)), FDiv(Pi, I(2)), Pi, FDiv(FNeg(Pi), I(4))}

Grid(XY) == [X |-> XY[1], Y |-> XY[2]]

\* The square grids create_grid makes over equal spans in x and y.
SquareGrids ==
    {Grid(create_grid(n, sp[1], sp[2], sp[1], sp[2])) : n \in 1..MaxGridN, sp \in Spans}

\* Rectangular grids: X and Y of one shape (ny, nx).
RectGrids ==
    {Grid(np_meshgrid(np_linspace(sx[1], sx[2], nx), np_linspace(sy[1], sy[2], ny))) :
        nx \in 1..MaxGridN, ny \in 1..MaxGridN, sx \in Spans, sy \in Spans}

\* Polar grids: R over [0, 2], Theta over [0, pi] or [0, 2*pi].
PolarGrids ==
    {Grid(np_meshgrid(np_linspace(I(0), I(2), n), np_linspace(I(0), FMul(I(m), Pi), n))) :
        n \in 1..MaxGridN, m \in 1..2}

VortexRows ==
    {[ty |-> ty, el |-> el] :
        ty \in {"list", "ndarray"},
        el \in {<<>>, <<I(0)>>, <<I(0), I(0)>>, <<I(0), I(1)>>, <<I(-1), I(1)>>,
                <<I(2), I(0), I(-2)>>}}

(****************************** state machine ******************************)

NoObject == [class |-> "none", d |-> <<>>]
\* What has been done to obj: the constructor's arguments, and the grid of the
\* latest velocity() and of the latest stream_function() call, if any.
NoHistory == [init |-> <<>>, vel |-> <<>>, psi |-> <<>>]

\* A free function has been called with inputs drawn from the input sets and has
\* not returned yet, or a Source or a Vortex has just been constructed.
Init ==
    \/ /\ obj = NoObject
       /\ hist = NoHistory
       /\ ret = Pending
       /\ \/ \E N \in 0..MaxN, xs \in Bounds, xe \in Bounds, ys \in Bounds, ye \in Bounds :
                call = [op |-> "create_grid", N |-> N, x_start |-> xs, x_end |-> xe,
                        y_start |-> ys, y_end |-> ye]
          \/ \E U \in Strengths, al \in Angles, G \in RectGrids, N \in 0..MaxGridN :
                call = [op |-> "get_freestream_info", u_inf |-> U, alpha |-> al,
                        X |-> G.X, Y |-> G.Y, N |-> N]
          \/ \E f \in {"get_vortex_info", "get_ss_info", "get_doublet_info"},
                S \in Strengths, p \in Positions, G \in RectGrids :
                call = [op |-> f, strength |-> S, x0 |-> p[1], y0 |-> p[2],
                        X |-> G.X, Y |-> G.Y]
          \/ \E g \in Strengths, G \in SquareGrids, xv \in VortexRows :
                call = [op |-> "get_velocity_infinite_vortices", gamma |-> g,
                        X |-> G.X, Y |-> G.Y, x_vortices |-> xv]
          \/ \E f \in {"get_freestream_cylindrical_info", "get_doublet_cylindrical_info"},
                S \in Strengths, G \in PolarGrids :
                call = [op |-> f, strength |-> S, R |-> G.X, Theta |-> G.Y]
    \/ \E c \in {"Source", "Vortex"}, S \in Strengths, p \in Positions :
          /\ call = [op |-> c, strength |-> S, x |-> p[1], y |-> p[2]]
          /\ obj = Construct(c, S, p[1], p[2])
          /\ hist = [init |-> <<S, p[1], p[2]>>, vel |-> <<>>, psi |-> <<>>]
          /\ ret = Return(<<>>)

\* A pending free-function call runs to its return or its exception.
Returns(f, result) ==
    /\ call.op = f
    /\ ret.exc = "pending"
    /\ ret' = result
    /\ UNCHANGED <<obj, hist, call>>

Call_create_grid ==
    Returns("create_grid",
            Return(create_grid(call.N, call.x_start, call.x_end, call.y_start, call.y_end)))

Call_get_freestream_info ==
    Returns("get_freestream_info",
            Return(get_freestream_info(call.u_inf, call.alpha, call.X, call.Y, call.N)))

Call_get_vortex_info ==
    Returns("get_vortex_info",
            Return(get_vortex_info(call.strength, call.x0, call.y0, call.X, call.Y)))

Call_get_velocity_infinite_vortices ==
    Returns("get_velocity_infinite_vortices",
            get_velocity_infinite_vortices(call.gamma, call.X, call.Y, call.x_vortices))

Call_get_ss_info ==
    Returns("get_ss_info",
            Return(get_ss_info(call.strength, call.x0, call.y0, call.X, call.Y)))

Call_get_doublet_info ==
    Returns("get_doublet_info",
            Return(get_doublet_info(call.strength, call.x0, call.y0, call.X, call.Y)))

Call_get_freestream_cylindrical_info ==
    Returns("get_freestream_cylindrical_info",
            Return(get_freestream_cylindrical_info(call.strength, call.R, call.Theta)))

Call_get_doublet_cylindrical_info ==
    Returns("get_doublet_cylindrical_info",
            Return(get_doublet_cylindrical_info(call.strength, call.R, call.Theta)))

\* obj.velocity(X, Y) and obj.stream_function(X, Y) on a constructed instance.
Method(class, m, G, self) ==
    /\ obj.class = class
    /\ obj' = self
    /\ call' = [op |-> m, X |-> G.X, Y |-> G.Y]
    /\ ret' = Return(<<>>)

Call_Source_velocity ==
    \E G \in SquareGrids :
        /\ Method("Source", "velocity", G, Source_velocity(obj, G.X, G.Y))
        /\ hist' = [hist EXCEPT !.vel = <<G>>]

Call_Source_stream_function ==
    \E G \in SquareGrids :
        /\ Method("Source", "stream_function", G, Source_stream_function(obj, G.X, G.Y))
        /\ hist' = [hist EXCEPT !.psi = <<G>>]

Call_Vortex_velocity ==
    \E G \in SquareGrids :
        /\ Method("Vortex", "velocity", G, Vortex_velocity(obj, G.X, G.Y))
        /\ hist' = [hist EXCEPT !.vel = <<G>>]

Call_Vortex_stream_function ==
    \E G \in SquareGrids :
        /\ Method("Vortex", "stream_function", G, Vortex_stream_function(obj, G.X, G.Y))
        /\ hist' = [hist EXCEPT !.psi = <<G>>]

Next ==
    \/ Call_create_grid
    \/ Call_get_freestream_info
    \/ Call_get_vortex_info
    \/ Call_get_velocity_infinite_vortices
    \/ Call_get_ss_info
    \/ Call_get_doublet_info
    \/ Call_get_freestream_cylindrical_info
    \/ Call_get_doublet_cylindrical_info
    \/ Call_Source_velocity
    \/ Call_Source_stream_function
    \/ Call_Vortex_velocity
    \/ Call_Vortex_stream_function

Spec == Init /\ [][Next]_vars

\* Every number the model computes is one its number form can hold.
Representable ==
    /\ ret.exc = "none" /\ obj = NoObject
           => \A i \in 1..Len(ret.out) :
                  \A p \in Cells(ret.out[i]) : ret.out[i].at[p].k # "unrep"
    /\ \A n \in {"u", "v", "psi"} :
           HasAttr(obj, n) => \A p \in Cells(obj.d[n]) : obj.d[n].at[p].k # "unrep"

(********************************* claims **********************************)

Returned(f) == call.op = f /\ ret.exc # "pending"

\* C1: create_grid(N, x_start, x_end, y_start, y_end) returns X and Y of shape
\* (N, N) with X[i,j] = x_start + j*(x_end - x_start)/(N-1) and
\* Y[i,j] = y_start + i*(y_end - y_start)/(N-1) when N > 1, and X[0,0] = x_start,
\* Y[0,0] = y_start when N = 1; create_grid(5, 0, 4, 0, 4) has X[i,j] = j and
\* Y[i,j] = i.
C1_create_grid ==
    Returned("create_grid") =>
        LET N == call.N
            X == ret.out[1]
            Y == ret.out[2]
            at(start, end, m) ==
                IF N > 1 THEN FAdd(start, FDiv(FMul(I(m), FSub(end, start)), I(N - 1)))
                ELSE start
        IN  /\ ret.exc = "none"
            /\ X.shape = <<N, N>> /\ Y.shape = <<N, N>>
            /\ Cells(X) = (0..(N - 1)) \X (0..(N - 1)) /\ Cells(Y) = Cells(X)
            /\ \A i \in 0..(N - 1), j \in 0..(N - 1) :
                   /\ X.at[<<i, j>>] = at(call.x_start, call.x_end, j)
                   /\ Y.at[<<i, j>>] = at(call.y_start, call.y_end, i)
                   /\ (N = 5 /\ call.x_start = I(0) /\ call.x_end = I(4)
                         => X.at[<<i, j>>] = I(j))
                   /\ (N = 5 /\ call.y_start = I(0) /\ call.y_end = I(4)
                         => Y.at[<<i, j>>] = I(i))

\* create_grid(5, 0, 4, 0, 4) has returned.
C1_witness ==
    /\ Returned("create_grid")
    /\ call.N = 5
    /\ call.x_start = I(0) /\ call.x_end = I(4)
    /\ call.y_start = I(0) /\ call.y_end = I(4)

\* C6: get_vortex_info for strength G at (x0, y0): on the horizontal line through
\* the vortex (Y = y0, X # x0) u = 0 and v = -G/(2*pi*(X - x0)); at unit distance
\* from the vortex psi = 0; so get_vortex_info(1, 0, 0, X, Y) at (1, 0) gives
\* u = 0, v = -1/(2*pi), psi = 0.
C6_vortex_values ==
    Returned("get_vortex_info") =>
        /\ ret.exc = "none"
        /\ \A p \in Cells(call.X) :
               LET x == call.X.at[p]
                   y == call.Y.at[p]
               IN  /\ (y = call.y0 /\ x # call.x0) =>
                          /\ ret.out[1].at[p] = I(0)
                          /\ ret.out[2].at[p] =
                                 FDiv(FNeg(call.strength), FMul(TwoPi, FSub(x, call.x0)))
                   /\ R2(x, y, call.x0, call.y0) = I(1) => ret.out[3].at[p] = I(0)
                   /\ (call.strength = I(1) /\ call.x0 = I(0) /\ call.y0 = I(0)
                        /\ x = I(1) /\ y = I(0)) =>
                          /\ ret.out[1].at[p] = I(0)
                          /\ ret.out[2].at[p] = FDiv(I(-1), TwoPi)
                          /\ ret.out[3].at[p] = I(0)

\* get_vortex_info(1, 0, 0, X, Y) has returned for a grid holding the point (1, 0).
C6_witness ==
    /\ Returned("get_vortex_info")
    /\ call.strength = I(1) /\ call.x0 = I(0) /\ call.y0 = I(0)
    /\ \E p \in Cells(call.X) : call.X.at[p] = I(1) /\ call.Y.at[p] = I(0)

\* C7: get_freestream_info(u_inf, alpha, X, Y, N) returns v = 0 at every cell of an
\* (N, N) array for every finite u_inf and every angle alpha, u = u_inf*cos(alpha)
\* at every cell of an (N, N) array, and psi = u_inf*(Y*cos(alpha) - X*sin(alpha)).
C7_freestream_v_zero ==
    Returned("get_freestream_info") =>
        LET N == call.N
            u == ret.out[1]
            v == ret.out[2]
            psi == ret.out[3]
        IN  /\ ret.exc = "none"
            /\ u.shape = <<N, N>> /\ v.shape = <<N, N>>
            /\ Cells(u) = (0..(N - 1)) \X (0..(N - 1)) /\ Cells(v) = Cells(u)
            /\ \A p \in Cells(v) : v.at[p] = I(0)
            /\ \A p \in Cells(u) : u.at[p] = FMul(call.u_inf, np_cos(call.alpha))
            /\ Cells(psi) = Cells(call.X)
            /\ \A p \in Cells(psi) :
                   psi.at[p] =
                       FMul(call.u_inf,
                            FSub(FMul(call.Y.at[p], np_cos(call.alpha)),
                                 FMul(call.X.at[p], np_sin(call.alpha))))

\* get_freestream_info has returned for a flow with u_inf*sin(alpha) # 0 and N >= 1.
C7_witness ==
    /\ Returned("get_freestream_info")
    /\ call.N >= 1
    /\ ~IsZero(FMul(call.u_inf, np_sin(call.alpha)))

(* The values the Cartesian singularity evaluators have produced in this state, *)
(* one record per grid cell and quantity: the evaluator, the singularity        *)
(* (strength S at (x0, y0)), the cell's point (x, y), the quantity and its value. *)
Ob(ev, S, x0, y0, X, Y, p, qty, A) ==
    [ev |-> ev, S |-> S, x0 |-> x0, y0 |-> y0, x |-> X.at[p], y |-> Y.at[p],
     qty |-> qty, val |-> A.at[p]]

FreeObs ==
    IF call.op \in {"get_ss_info", "get_vortex_info", "get_doublet_info"} /\ ret.exc = "none"
    THEN {Ob(call.op, call.strength, call.x0, call.y0, call.X, call.Y, p,
             <<"u", "v", "psi">>[n], ret.out[n]) : p \in Cells(call.X), n \in 1..3}
    ELSE {}

VelObs ==
    IF hist.vel # <<>>
    THEN {Ob(obj.class, obj.d.strength, obj.d.x, obj.d.y, hist.vel[1].X, hist.vel[1].Y, p,
             n, obj.d[n]) : p \in Cells(hist.vel[1].X), n \in {"u", "v"} \cap DOMAIN obj.d}
    ELSE {}

PsiObs ==
    IF hist.psi # <<>>
    THEN {Ob(obj.class, obj.d.strength, obj.d.x, obj.d.y, hist.psi[1].X, hist.psi[1].Y, p,
             n, obj.d[n]) : p \in Cells(hist.psi[1].X), n \in {"psi"} \cap DOMAIN obj.d}
    ELSE {}

Obs == FreeObs \cup VelObs \cup PsiObs

AtSingularity(o) == o.x = o.x0 /\ o.y = o.y0
NonFinite(a) == a.k \in {"nan", "inf"}
IsSourcePsi(o) == o.qty = "psi" /\ o.ev \in {"get_ss_info", "Source"}

\* C3 as stated: for a non-zero strength, each of u, v and psi is non-finite at a
\* cell equal to the singularity's position and finite at every other cell.
C3_original ==
    \A o \in Obs :
        ~IsZero(o.S) => IF AtSingularity(o) THEN NonFinite(o.val) ELSE IsFinite(o.val)

\* C3 as amended: for a non-zero strength, at a cell equal to the singularity's
\* position u and v are non-finite for every Cartesian singularity evaluator and
\* psi is non-finite for the vortex and the doublet evaluators, while psi of
\* get_ss_info and of Source is 0 there (arctan2(0, 0) = 0); at every other cell
\* u, v and psi are finite.
C3_singular_cell ==
    \A o \in Obs :
        ~IsZero(o.S) =>
            IF AtSingularity(o)
            THEN IF IsSourcePsi(o) THEN o.val = I(0) ELSE NonFinite(o.val)
            ELSE IsFinite(o.val)

\* A singularity of non-zero strength has been evaluated on a grid that holds its
\* position and other points, by a free function and by an object's two methods.
C3_witness ==
    /\ \E o \in Obs : ~IsZero(o.S) /\ AtSingularity(o) /\ IsSourcePsi(o)
    /\ \E o \in Obs : ~IsZero(o.S) /\ AtSingularity(o) /\ ~IsSourcePsi(o)
    /\ \E o \in Obs : ~IsZero(o.S) /\ ~AtSingularity(o)

\* C10 as stated: a singularity of strength 0 gives u = v = psi = 0 at every cell,
\* for every position, one equal to a grid point included.
C10_original == \A o \in Obs : IsZero(o.S) => o.val = I(0)

\* C10 as amended: a singularity of strength 0 gives u = v = psi = 0 at every cell
\* that is not the singularity's position; at a cell equal to the position u and v
\* are NaN, psi of the vortex and the doublet evaluators is NaN, and psi of
\* get_ss_info and of Source is 0.
C10_zero_strength ==
    \A o \in Obs :
        IsZero(o.S) =>
            IF AtSingularity(o) /\ ~IsSourcePsi(o) THEN o.val = NaN ELSE o.val = I(0)

\* A Vortex of strength 0 has computed psi on a grid that holds its position and
\* other points.
C10_witness ==
    /\ \E o \in PsiObs : o.ev = "Vortex" /\ IsZero(o.S) /\ AtSingularity(o)
    /\ \E o \in PsiObs : o.ev = "Vortex" /\ IsZero(o.S) /\ ~AtSingularity(o)

\* Both methods of obj have been called, last on one and the same grid.
BothOn(G) == hist.vel = <<G>> /\ hist.psi = <<G>>

Attrs(self) == <<self.d.u, self.d.v, self.d.psi>>

\* C2: after velocity(X, Y) and stream_function(X, Y), the attributes (u, v, psi)
\* of Source(strength, x0, y0) equal get_ss_info(strength, x0, y0, X, Y) and those
\* of Vortex(strength, x0, y0) equal get_vortex_info(strength, x0, y0, X, Y), the
\* vortex psi being -strength/(4*pi)*ln((X-x0)^2+(Y-y0)^2) in both forms.
C2_wrappers_equal_functions ==
    \A G \in SquareGrids :
        BothOn(G) =>
            /\ obj.class = "Source" =>
                   Attrs(obj) = get_ss_info(obj.d.strength, obj.d.x, obj.d.y, G.X, G.Y)
            /\ obj.class = "Vortex" =>
                   /\ Attrs(obj) =
                          get_vortex_info(obj.d.strength, obj.d.x, obj.d.y, G.X, G.Y)
                   /\ \A p \in Cells(G.X) :
                          obj.d.psi.at[p] =
                              FMul(FDiv(FNeg(obj.d.strength), FMul(I(4), Pi)),
                                   np_log(R2(G.X.at[p], G.Y.at[p], obj.d.x, obj.d.y)))

\* C4: psi and (u, v) of get_freestream_info are consistent on the grid: between
\* two cells one row apart psi grows by h*u, h the step in Y, and between two cells
\* one column apart psi grows by -h*v, h the step in X.
C4_freestream_consistent ==
    (Returned("get_freestream_info") /\ call.N >= 1) =>
        LET u == ret.out[1].at[<<0, 0>>]
            v == ret.out[2].at[<<0, 0>>]
            psi == ret.out[3]
        IN  \A p \in Cells(psi), q \in Cells(psi) :
                /\ (q[1] = p[1] + 1 /\ q[2] = p[2]) =>
                       FSub(psi.at[q], psi.at[p]) =
                           FMul(FSub(call.Y.at[q], call.Y.at[p]), u)
                /\ (q[1] = p[1] /\ q[2] = p[2] + 1) =>
                       FSub(psi.at[q], psi.at[p]) =
                           FNeg(FMul(FSub(call.X.at[q], call.X.at[p]), v))

\* The arrays an evaluator has returned or stored, each with the grid array X (or
\* R) it was computed for.
Outputs ==
    (IF ret.exc = "none" /\ obj = NoObject /\ call.op # "create_grid"
     THEN {<<ret.out[i], IF "X" \in DOMAIN call THEN call.X ELSE call.R>> :
              i \in 1..Len(ret.out)}
     ELSE {})
    \cup (IF hist.vel # <<>> THEN {<<obj.d[n], hist.vel[1].X>> : n \in {"u", "v"} \cap DOMAIN obj.d}
          ELSE {})
    \cup (IF hist.psi # <<>> THEN {<<obj.d[n], hist.psi[1].X>> : n \in {"psi"} \cap DOMAIN obj.d}
          ELSE {})

\* C5 as stated: every array an evaluator returns has the shape of the grid arrays
\* X, Y; for get_freestream_info whatever N and the grid's shape are.
C5_original == \A o \in Outputs : o[1].shape = o[2].shape

IsFreestreamVelocity(o) ==
    call.op = "get_freestream_info" /\ (o[1] = ret.out[1] \/ o[1] = ret.out[2])

\* C5 as amended: every array an evaluator returns has the shape of the grid arrays
\* X, Y, except u and v of get_freestream_info(u_inf, alpha, X, Y, N), which have
\* shape (N, N) whatever the grid's shape is; psi of get_freestream_info has the
\* grid's shape.
C5_shapes ==
    /\ \A o \in Outputs : ~IsFreestreamVelocity(o) => o[1].shape = o[2].shape
    /\ Returned("get_freestream_info") =>
           /\ ret.out[1].shape = <<call.N, call.N>>
           /\ ret.out[2].shape = <<call.N, call.N>>
           /\ ret.out[3].shape = call.X.shape

\* get_freestream_info has returned for a grid that is not N by N.
C5_witness ==
    /\ Returned("get_freestream_info")
    /\ call.X.shape # <<call.N, call.N>>
    /\ call.X.shape[1] # call.X.shape[2]

\* C8 as stated: no evaluator call raises; get_velocity_infinite_vortices completes
\* and returns (u, v) for every x_vortices, one with fewer than two entries and one
\* with equal first two entries included.
C8_original == ret.exc \in {"pending", "none"}

\* C8 as amended: no evaluator call raises, except that
\* get_velocity_infinite_vortices raises IndexError when x_vortices has fewer than
\* two entries and ZeroDivisionError when x_vortices is a list of Python numbers
\* whose first two entries are equal; for an ndarray whose first two entries are
\* equal (a = 0) it completes and returns u and v that are NaN at every cell.
C8_exceptions ==
    ret.exc # "pending" =>
        IF call.op = "get_velocity_infinite_vortices"
        THEN LET xv == call.x_vortices
             IN  IF Len(xv.el) < 2 THEN ret.exc = "IndexError"
                 ELSE IF xv.el[1] # xv.el[2] THEN ret.exc = "none"
                 ELSE IF xv.ty = "list" THEN ret.exc = "ZeroDivisionError"
                 ELSE /\ ret.exc = "none"
                      /\ \A i \in 1..2 : \A p \in Cells(call.X) : ret.out[i].at[p] = NaN
        ELSE ret.exc = "none"

\* get_velocity_infinite_vortices has been called with a one-entry x_vortices.
C8_witness ==
    /\ Returned("get_velocity_infinite_vortices")
    /\ Len(call.x_vortices.el) = 1

\* The fields of a singularity of the given class, as the formula table gives them.
TableU(class, S, x0, y0, x, y) ==
    FDiv(FMul(FDiv(S, TwoPi), IF class = "Source" THEN FSub(x, x0) ELSE FSub(y, y0)),
         R2(x, y, x0, y0))

TableV(class, S, x0, y0, x, y) ==
    FDiv(FMul(FDiv(IF class = "Source" THEN S ELSE FNeg(S), TwoPi),
              IF class = "Source" THEN FSub(y, y0) ELSE FSub(x, x0)),
         R2(x, y, x0, y0))

TablePsi(class, S, x0, y0, x, y) ==
    IF class = "Source" THEN FMul(FDiv(S, TwoPi), np_arctan2(FSub(y, y0), FSub(x, x0)))
    ELSE FMul(FDiv(FNeg(S), FMul(I(4), Pi)), np_log(R2(x, y, x0, y0)))

FieldOn(G, F(_, _)) == Elementwise(G.X, G.Y, F)

C9_state ==
    obj # NoObject =>
        LET S == hist.init[1]
            x0 == hist.init[2]
            y0 == hist.init[3]
        IN  /\ obj.d.strength = S /\ obj.d.x = x0 /\ obj.d.y = y0
            /\ HasAttr(obj, "u") <=> hist.vel # <<>>
            /\ HasAttr(obj, "v") <=> hist.vel # <<>>
            /\ HasAttr(obj, "psi") <=> hist.psi # <<>>
            /\ DOMAIN obj.d \subseteq {"strength", "x", "y", "u", "v", "psi"}
            /\ hist.vel # <<>> =>
                   /\ obj.d.u = FieldOn(hist.vel[1],
                                        LAMBDA x, y : TableU(obj.class, S, x0, y0, x, y))
                   /\ obj.d.v = FieldOn(hist.vel[1],
                                        LAMBDA x, y : TableV(obj.class, S, x0, y0, x, y))
            /\ hist.psi # <<>> =>
                   obj.d.psi = FieldOn(hist.psi[1],
                                       LAMBDA x, y : TablePsi(obj.class, S, x0, y0, x, y))

AttrOrNone(self, n) == IF HasAttr(self, n) THEN <<self.d[n]>> ELSE <<>>

C9_step ==
    /\ call'.op = "velocity" => AttrOrNone(obj', "psi") = AttrOrNone(obj, "psi")
    /\ call'.op = "stream_function" =>
           /\ AttrOrNone(obj', "u") = AttrOrNone(obj, "u")
           /\ AttrOrNone(obj', "v") = AttrOrNone(obj, "v")
    /\ obj # NoObject =>
           /\ obj'.d.strength = obj.d.strength
           /\ obj'.d.x = obj.d.x /\ obj'.d.y = obj.d.y

\* C9: for a Source or a Vortex, after any sequence of velocity and stream_function
\* calls: u and v exist exactly when velocity has been called and then hold the
\* field of the grid of the latest velocity call; psi exists exactly when
\* stream_function has been called and then holds the field of the grid of the
\* latest stream_function call; velocity leaves psi as it is, stream_function
\* leaves u and v as they are, and no call changes strength, x or y from the
\* constructor's arguments.
C9_attributes == []C9_state /\ [][C9_step]_vars

\* velocity has been called on one grid and stream_function on another.
C9_witness ==
    /\ hist.vel # <<>> /\ hist.psi # <<>> /\ hist.vel # hist.psi
    /\ HasAttr(obj, "u") /\ HasAttr(obj, "psi")
    /\ call.op = "velocity"

====
